---- MODULE Spec2Model ----
(***************************************************************************)
(* A model of the KDE-Scripted-Install proof-of-concept scripts:            *)
(*   src/hardware_poc.py   HardwareDetector (NVMe / EFI enumeration)        *)
(*   src/config_simple.py  validate_config_file (standard-library rules)    *)
(*   src/config_poc.py     ConfigManager / SystemConfig (load, save)        *)
(* Python strings are modelled as sequences of one-character strings, so    *)
(* that regular expressions, strip(), split() and int() are computed        *)
(* character by character as the interpreter computes them.  The token      *)
(* "NUL" stands for the character '\x00'.                                   *)
(***************************************************************************)
EXTENDS Integers, Sequences, FiniteSets, TLC

VARIABLES
    dry_run,        \* HardwareDetector.dry_run
    drives,         \* HardwareDetector.drives
    efi_entries,    \* HardwareDetector.efi_entries
    sys,            \* the machine: /dev, /sys, blkid, efibootmgr
    op,             \* the most recent call
    arg,            \* its argument
    ret,            \* what that call returned or raised
    io              \* what of the machine that call touched

VARIABLES
    config_data,    \* the mapping handed to validate_config_file
    errors,         \* the list it returned
    validated       \* whether it has returned

VARIABLES
    config_file,    \* the text of ConfigManager.config_file, NoFile without one
    drive_exists,   \* whether Path(target_drive).exists()
    config,         \* ConfigManager.config
    cm_op,          \* the most recent ConfigManager call
    cm_ret,         \* what it returned
    loaded_from     \* the text config was loaded from

hwVars == <<dry_run, drives, efi_entries, sys, op, arg, ret, io>>
cvVars == <<config_data, errors, validated>>
cmVars == <<config_file, drive_exists, config, cm_op, cm_ret, loaded_from>>

(***************************************************************************)
(* Characters and the str methods the scripts use                           *)
(***************************************************************************)
LowerSeq == <<"a", "b", "c", "d", "e", "f", "g", "h", "i", "j", "k", "l", "m", "n", "o", "p", "q", "r", "s", "t", "u", "v", "w", "x", "y", "z">>
UpperSeq == <<"A", "B", "C", "D", "E", "F", "G", "H", "I", "J", "K", "L", "M", "N", "O", "P", "Q", "R", "S", "T", "U", "V", "W", "X", "Y", "Z">>
DigitSeq == <<"0", "1", "2", "3", "4", "5", "6", "7", "8", "9">>

Range(f) == {f[i] : i \in DOMAIN f}
Lower == Range(LowerSeq)
Upper == Range(UpperSeq)
Digit == Range(DigitSeq)
HexUpper == Digit \cup {"A", "B", "C", "D", "E", "F"}
Whitespace == {" ", "\t", "\n"}

\* every character of s[a..b] is in the class cls
AllIn(s, a, b, cls) == \A k \in a..b : s[k] \in cls

\* str.strip(chars)
RECURSIVE LStripChars(_, _)
LStripChars(s, cls) ==
    IF s # <<>> /\ Head(s) \in cls THEN LStripChars(Tail(s), cls) ELSE s

RECURSIVE RStripChars(_, _)
RStripChars(s, cls) ==
    IF s # <<>> /\ s[Len(s)] \in cls
    THEN RStripChars(SubSeq(s, 1, Len(s) - 1), cls) ELSE s

StripChars(s, cls) == RStripChars(LStripChars(s, cls), cls)

\* str.strip()
Strip(s) == StripChars(s, Whitespace)

\* sub in s
Contains(s, sub) ==
    \E i \in 1..(Len(s) - Len(sub) + 1) : SubSeq(s, i, i + Len(sub) - 1) = sub

\* s.startswith(p)
StartsWith(s, p) == Len(s) >= Len(p) /\ SubSeq(s, 1, Len(p)) = p

\* s.replace(c, '') for a single character c
RECURSIVE RemoveChar(_, _)
RemoveChar(s, c) ==
    IF s = <<>> THEN <<>>
    ELSE IF Head(s) = c THEN RemoveChar(Tail(s), c)
    ELSE <<Head(s)>> \o RemoveChar(Tail(s), c)

\* str.upper() on one character
UpperChar(c) ==
    IF c \in Lower THEN UpperSeq[CHOOSE i \in DOMAIN LowerSeq : LowerSeq[i] = c] ELSE c

ToUpper(s) == [i \in DOMAIN s |-> UpperChar(s[i])]

\* str.splitlines(), for the line boundary "\n": the pieces between
\* newlines, without an empty last piece after a final newline
SplitLines(s) ==
    LET nl == {i \in DOMAIN s : s[i] = "\n"}
        nth(k) == CHOOSE i \in nl : Cardinality({j \in nl : j < i}) = k - 1
        count == Cardinality(nl) + (IF s # <<>> /\ s[Len(s)] # "\n" THEN 1 ELSE 0)
    IN [k \in 1..count |->
           SubSeq(s, IF k = 1 THEN 1 ELSE nth(k - 1) + 1,
                     IF k <= Cardinality(nl) THEN nth(k) - 1 ELSE Len(s))]

\* the regex anchor $ at index k of s: the end, or just before a final newline
AtEnd(s, k) == k = Len(s) + 1 \/ (k = Len(s) /\ s[k] = "\n")

DigitVal(c) == (CHOOSE i \in DOMAIN DigitSeq : DigitSeq[i] = c) - 1

\* int(text): surrounding whitespace is dropped, then decimal digits are
\* required (the sysfs attributes carry neither sign nor underscore)
IsIntLiteral(s) == LET t == Strip(s) IN t # <<>> /\ AllIn(t, 1, Len(t), Digit)

RECURSIVE DigitsValue(_, _)
DigitsValue(t, acc) ==
    IF t = <<>> THEN acc ELSE DigitsValue(Tail(t), acc * 10 + DigitVal(Head(t)))

IntOf(s) == DigitsValue(Strip(s), 0)

\* re.match(r'/dev/nvme\d+n\d+$', s)
NvmePrefix == <<"/", "d", "e", "v", "/", "n", "v", "m", "e">>

MatchesNvmePath(s) ==
    LET n == Len(NvmePrefix) IN
    /\ StartsWith(s, NvmePrefix)
    /\ \E i \in (n + 2)..Len(s) :
          /\ s[i] = "n"
          /\ AllIn(s, n + 1, i - 1, Digit)
          /\ \E j \in (i + 1)..Len(s) :
                AllIn(s, i + 1, j, Digit) /\ AtEnd(s, j + 1)

(***************************************************************************)
(* The machine HardwareDetector queries                                     *)
(***************************************************************************)
MaxDevices == 2

\* outcome of Path.read_text()
Text(t) == [err |-> "none", text |-> t]
Missing == [err |-> "FileNotFoundError", text |-> <<>>]
Denied == [err |-> "PermissionError", text |-> <<>>]

\* what blkid reports for the first partition of a device
Label(rc, out) == [rc |-> rc, stdout |-> out]
NoLabel == Label(2, <<>>)

BaseDevice ==
    [isBlock |-> TRUE, nameOk |-> TRUE, hasSys |-> TRUE,
     removable |-> Text(<<"0", "\n">>),
     size |-> Text(<<"2", "0", "0", "0", "4", "0", "9", "7", "7", "6", "\n">>),
     model |-> Text(<<"S", "S", "D", " ", "9", "8", "0", "NUL", "NUL", "\n">>),
     label |-> NoLabel]

DeviceProfiles ==
    {BaseDevice,
     [BaseDevice EXCEPT !.removable = Text(<<"1", "\n">>)],
     [BaseDevice EXCEPT !.removable = Missing],
     [BaseDevice EXCEPT !.removable = Denied, !.label = Label(0, <<"S", "Y", "S", "T", "E", "M", "\n">>)],
     [BaseDevice EXCEPT !.size = Text(<<"n", "/", "a", "\n">>)],
     [BaseDevice EXCEPT !.size = Missing, !.model = Missing],
     [BaseDevice EXCEPT !.size = Denied],
     [BaseDevice EXCEPT !.size = Text(<<"9", "7", "6", "7", "7", "3", "1", "6", "8", "\n">>), !.model = Denied],
     [BaseDevice EXCEPT !.label = Label(0, <<"E", "F", "I", "\n">>)],
     [BaseDevice EXCEPT !.label = Label(0, <<"e", "f", "i", "\n">>)],
     [BaseDevice EXCEPT !.isBlock = FALSE],
     [BaseDevice EXCEPT !.nameOk = FALSE],
     [BaseDevice EXCEPT !.hasSys = FALSE]}

\* the devices that differ in what blkid reports
ProbeDeviceProfiles ==
    {d \in DeviceProfiles :
        \E l \in {NoLabel.stdout, <<"E", "F", "I", "\n">>, <<"e", "f", "i", "\n">>} :
            d = [BaseDevice EXCEPT !.label = Label(IF l = <<>> THEN 2 ELSE 0, l)]}

DeviceLists(profiles) == UNION {[1..n -> profiles] : n \in 0..MaxDevices}

\* outcome of subprocess.run(['efibootmgr'], capture_output=True, text=True, check=True)
EfiOutcomes ==
    {[err |-> "FileNotFoundError", stdout |-> <<>>],
     [err |-> "PermissionError", stdout |-> <<>>],
     [err |-> "CalledProcessError", stdout |-> <<>>],
     [err |-> "none", stdout |-> <<"B", "o", "o", "t", "0", "0", "0", "6", "*", " ", "K", "D", "E", " ", "n", "e", "o", "n", " ", "H", "D", "(", "1", ")", "\n", "B", "o", "o", "t", "0", "0", "0", "1", "*", " ", "W", "i", "n", " ", "H", "D", "(", "2", ")", "\n">>],
     [err |-> "none", stdout |-> <<"B", "o", "o", "t", "0", "A", " ", "k", "d", "e", " ", " ", "x", " ", " ", "H", "D", "(", "3", ")", "\n", "K", "D", "E", " ", "j", "u", "n", "k", "\n">>]}

NoEfiTool == [err |-> "FileNotFoundError", stdout |-> <<>>]

BlkidStates == {"present", "missing", "denied"}

\* the machines of SpecHardware (every device profile, no firmware tool) and of
\* SpecProbes (every firmware tool outcome, devices that differ in their label)
HwSystems == [devs : DeviceLists(DeviceProfiles), blkid : BlkidStates, efi : {NoEfiTool}]
ProbeSystems == [devs : DeviceLists(ProbeDeviceProfiles), blkid : BlkidStates, efi : EfiOutcomes]

\* the i-th entry of /dev matching nvme*n*: a namespace node, or a partition node
DevName(i, d) ==
    <<"n", "v", "m", "e">> \o <<DigitSeq[i]>> \o <<"n", "1">> \o (IF d.nameOk THEN <<>> ELSE <<"p", "1">>)

DevPath(i, d) == <<"/", "d", "e", "v", "/">> \o DevName(i, d)

DevPaths(S) == {DevPath(i, S.devs[i]) : i \in DOMAIN S.devs}

\* subprocess.run(['blkid', '-o', 'value', '-s', 'LABEL', part], capture_output=True)
RunBlkid(S, part) ==
    IF S.blkid = "missing" THEN [err |-> "FileNotFoundError", rc |-> 0, stdout |-> <<>>]
    ELSE IF S.blkid = "denied" THEN [err |-> "PermissionError", rc |-> 0, stdout |-> <<>>]
    ELSE LET hit == {i \in DOMAIN S.devs : DevPath(i, S.devs[i]) \o <<"p", "1">> = part}
             l == IF hit = {} THEN NoLabel ELSE S.devs[CHOOSE i \in hit : TRUE].label
         IN [err |-> "none", rc |-> l.rc, stdout |-> l.stdout]

(***************************************************************************)
(* HardwareDetector                                                         *)
(***************************************************************************)
Returned(v, touched) == [exc |-> "none", value |-> v, io |-> touched]
Raised(e, touched) == [exc |-> e, value |-> <<>>, io |-> touched]

\* the exceptions the except clauses of detect_windows and get_efi_entries name:
\* CalledProcessError is a SubprocessError, PermissionError is neither
ProbeExceptionsCaught == {"CalledProcessError", "FileNotFoundError"}

\* detect_windows without its dry-run branch
detect_windows_AlwaysProbes(dr, S, drive_path) ==
    LET result == RunBlkid(S, drive_path \o <<"p", "1">>) IN
    IF result.err = "none"
    THEN Returned(Contains(result.stdout, <<"E", "F", "I">>)
                     \/ Contains(result.stdout, <<"S", "Y", "S", "T", "E", "M">>), {"blkid"})
    ELSE IF result.err \in ProbeExceptionsCaught THEN Returned(FALSE, {"blkid"})
    ELSE Raised(result.err, {"blkid"})

detect_windows(dr, S, drive_path) ==
    IF dr THEN Returned(FALSE, {})
    ELSE LET result == RunBlkid(S, drive_path \o <<"p", "1">>) IN
         IF result.err = "none"
         THEN Returned(Contains(result.stdout, <<"E", "F", "I">>)
                          \/ Contains(result.stdout, <<"S", "Y", "S", "T", "E", "M">>), {"blkid"})
         ELSE IF result.err \in ProbeExceptionsCaught THEN Returned(FALSE, {"blkid"})
         ELSE Raised(result.err, {"blkid"})

\* size_gb = (size_sectors * 512) // (1000 * 1000 * 1000), in two limbs of
\* 10^6 so that no intermediate product exceeds 32 bits
SectorBytes == 512
Limb == 1000 * 1000

\* the size in binary gigabytes: (size_sectors * 512) // 2^30
SizeGb_Binary(size_sectors) == size_sectors \div (2 * 1024 * 1024)

SizeGb(size_sectors) ==
    LET a == (size_sectors \div Limb) * SectorBytes
        b == (size_sectors % Limb) * SectorBytes
    IN (a \div 1000) + (((a % 1000) * Limb + b) \div (1000 * Limb))

\* the exceptions the except clause around each sysfs read names
RemovableExceptionsCaught == {"FileNotFoundError", "PermissionError"}
SizeExceptionsCaught == {"FileNotFoundError", "ValueError"}
ModelExceptionsCaught == {"FileNotFoundError", "PermissionError"}

\* int((sys_path / 'size').read_text().strip())
ReadSize(d) ==
    IF d.size.err # "none" THEN [err |-> d.size.err, n |-> 0]
    ELSE IF ~IsIntLiteral(d.size.text) THEN [err |-> "ValueError", n |-> 0]
    ELSE [err |-> "none", n |-> IntOf(d.size.text)]

\* model_file.read_text().strip().replace('\x00', '')
ReadModel(d) ==
    IF d.model.err # "none" THEN [err |-> d.model.err, text |-> <<>>]
    ELSE [err |-> "none", text |-> RemoveChar(Strip(d.model.text), "NUL")]

\* The for loop of enumerate_nvme_drives from the i-th entry on.  is_removable
\* is the loop's local of that name: <<>> while unbound, <<b>> once assigned; it
\* keeps its value from one iteration to the next.
RECURSIVE EnumLoop(_, _, _, _, _, _)
EnumLoop(dr, S, i, acc, is_removable, touched) ==
    IF i > Len(S.devs) THEN Returned(acc, touched)
    ELSE
      LET d == S.devs[i]
          device_path == DevPath(i, d)
      IN
      IF ~d.isBlock THEN EnumLoop(dr, S, i + 1, acc, is_removable, touched)
      ELSE IF ~MatchesNvmePath(device_path)
      THEN EnumLoop(dr, S, i + 1, acc, is_removable, touched)
      ELSE IF ~d.hasSys
      THEN EnumLoop(dr, S, i + 1, acc, is_removable, touched \cup {"/sys"})
      ELSE
        LET t1 == touched \cup {"/sys"}
            rem == IF d.removable.err = "none"
                   THEN <<Strip(d.removable.text) = <<"1">> >>
                   ELSE is_removable
            sz == ReadSize(d)
            md == ReadModel(d)
            win == detect_windows(dr, S, device_path)
            t2 == t1 \cup win.io
        IN
        IF d.removable.err = "none" /\ rem[1]
        THEN EnumLoop(dr, S, i + 1, acc, rem, t1)
        ELSE IF d.removable.err \notin RemovableExceptionsCaught \cup {"none"}
        THEN Raised(d.removable.err, t1)
        ELSE IF sz.err \notin SizeExceptionsCaught \cup {"none"}
        THEN Raised(sz.err, t1)
        ELSE IF md.err \notin ModelExceptionsCaught \cup {"none"}
        THEN Raised(md.err, t1)
        ELSE IF win.exc # "none" THEN Raised(win.exc, t2)
        ELSE IF rem = <<>> THEN Raised("UnboundLocalError", t2)
        ELSE
          LET drive == [path |-> device_path,
                        size_gb |-> IF sz.err = "none" THEN SizeGb(sz.n) ELSE 0,
                        model |-> IF md.err = "none" THEN md.text ELSE <<"U", "n", "k", "n", "o", "w", "n">>,
                        is_removable |-> rem[1],
                        has_windows |-> win.value]
          IN EnumLoop(dr, S, i + 1, Append(acc, drive), rem, t2)

enumerate_nvme_drives(dr, S) == EnumLoop(dr, S, 1, <<>>, <<>>, {"/dev"})

\* length of the longest run of cls characters of s starting at index k
RECURSIVE RunLen(_, _, _)
RunLen(s, k, cls) ==
    IF k <= Len(s) /\ s[k] \in cls THEN 1 + RunLen(s, k + 1, cls) ELSE 0

\* EfiEntry.parse_from_efibootmgr:
\*   re.match(r'Boot([0-9A-F]+)\*?\s+(.+?)\s+(HD\(.+)', line)
\* A match is <<h, st, w, m>>: h hex digits, st stars, w whitespace
\* characters, a name of m characters, then whitespace up to "HD(" and at least
\* one more character.  The regex engine prefers the longest h, then the
\* star, then the longest w, then the shortest m.
EfiMatches(line) ==
    LET n == Len(line)
    IN IF ~StartsWith(line, <<"B", "o", "o", "t">>) THEN {}
       ELSE UNION {
              UNION {
                {<<h, st, w, m>> :
                    w \in 1..RunLen(line, 5 + h + st, Whitespace),
                    m \in 1..n} : st \in {s \in {0, 1} : s = 1 => (5 + h <= n /\ line[5 + h] = "*")}
              } : h \in 1..RunLen(line, 5, HexUpper)}

EfiMatchOk(line, t) ==
    LET e == 4 + t[1] + t[2] + t[3] + t[4]
        n == Len(line)
    IN /\ e < n
       /\ AllIn(line, 4 + t[1] + t[2] + t[3] + 1, e, {c \in Range(line) : c # "\n"})
       /\ \E v \in 1..RunLen(line, e + 1, Whitespace) :
             /\ SubSeq(line, e + v + 1, e + v + 3) = <<"H", "D", "(">>
             /\ e + v + 4 <= n

EfiPreferred(t, u) ==
    \/ t[1] > u[1]
    \/ t[1] = u[1] /\ t[2] > u[2]
    \/ t[1] = u[1] /\ t[2] = u[2] /\ t[3] > u[3]
    \/ t[1] = u[1] /\ t[2] = u[2] /\ t[3] = u[3] /\ t[4] <= u[4]

\* <<>> for None, <<entry>> for an EfiEntry
parse_from_efibootmgr(line) ==
    LET M == {t \in EfiMatches(line) : EfiMatchOk(line, t)} IN
    IF M = {} THEN <<>>
    ELSE LET t == CHOOSE x \in M : \A u \in M : EfiPreferred(x, u)
             nameFrom == 4 + t[1] + t[2] + t[3] + 1
             nameTo == nameFrom + t[4] - 1
             hd == nameTo + RunLen(line, nameTo + 1, Whitespace) + 1
         IN << [boot_id |-> SubSeq(line, 5, 4 + t[1]),
                name |-> Strip(SubSeq(line, nameFrom, nameTo)),
                device_path |-> SubSeq(line, hd, Len(line))] >>

\* the for loop of get_efi_entries
RECURSIVE EfiLoop(_)
EfiLoop(lines) ==
    IF lines = <<>> THEN <<>>
    ELSE (IF Contains(ToUpper(Head(lines)), <<"K", "D", "E">>)
          THEN parse_from_efibootmgr(Head(lines)) ELSE <<>>)
         \o EfiLoop(Tail(lines))

\* get_efi_entries: what it returns, and cache, the new value of self.efi_entries
get_efi_entries(dr, S, cached) ==
    IF dr THEN [exc |-> "none", value |-> <<>>, io |-> {}, cache |-> cached]
    ELSE IF S.efi.err = "none"
    THEN LET entries == EfiLoop(SplitLines(S.efi.stdout)) IN
         [exc |-> "none", value |-> entries, io |-> {"efibootmgr"}, cache |-> entries]
    ELSE IF S.efi.err \in ProbeExceptionsCaught
    THEN [exc |-> "none", value |-> <<>>, io |-> {"efibootmgr"}, cache |-> cached]
    ELSE [exc |-> S.efi.err, value |-> <<>>, io |-> {"efibootmgr"}, cache |-> cached]

\* s restricted to the elements satisfying keep, in order
RECURSIVE SelectDrives(_, _)
SelectDrives(s, windows) ==
    IF s = <<>> THEN <<>>
    ELSE (IF Head(s).has_windows = windows THEN <<Head(s)>> ELSE <<>>)
         \o SelectDrives(Tail(s), windows)

\* categorize_drives setting the target drive aside with the Windows drives
categorize_drives_TargetAside(self_drives, target_drive) ==
    <<SelectSeq(self_drives,
                LAMBDA d : ~(d.has_windows \/ d.path = target_drive)),
      SelectSeq(self_drives,
                LAMBDA d : d.has_windows \/ d.path = target_drive)>>

\* categorize_drives: <<safe_drives, windows_drives>>
categorize_drives(self_drives, target_drive) ==
    <<SelectDrives(self_drives, FALSE), SelectDrives(self_drives, TRUE)>>

(***************************************************************************)
(* Calls on one HardwareDetector                                            *)
(***************************************************************************)
NoReturn == [exc |-> "none", value |-> <<>>]

DetectorInit(systems) ==
    /\ dry_run \in BOOLEAN
    /\ drives = <<>>
    /\ efi_entries = <<>>
    /\ sys \in systems
    /\ op = "__init__"
    /\ arg = <<>>
    /\ ret = NoReturn
    /\ io = {}

EnumerateNvmeDrives ==
    LET r == enumerate_nvme_drives(dry_run, sys) IN
    /\ op' = "enumerate_nvme_drives"
    /\ arg' = <<>>
    /\ ret' = [exc |-> r.exc, value |-> r.value]
    /\ io' = r.io
    /\ drives' = IF r.exc = "none" THEN r.value ELSE drives
    /\ UNCHANGED <<dry_run, efi_entries, sys, cvVars, cmVars>>

DetectWindows ==
    \E drive_path \in DevPaths(sys) \cup {<<"/", "d", "e", "v", "/", "s", "d", "a">>} :
        LET r == detect_windows(dry_run, sys, drive_path) IN
        /\ op' = "detect_windows"
        /\ arg' = drive_path
        /\ ret' = [exc |-> r.exc, value |-> r.value]
        /\ io' = r.io
        /\ UNCHANGED <<dry_run, drives, efi_entries, sys, cvVars, cmVars>>

GetEfiEntries ==
    LET r == get_efi_entries(dry_run, sys, efi_entries) IN
    /\ op' = "get_efi_entries"
    /\ arg' = <<>>
    /\ ret' = [exc |-> r.exc, value |-> r.value]
    /\ io' = r.io
    /\ efi_entries' = r.cache
    /\ UNCHANGED <<dry_run, drives, sys, cvVars, cmVars>>

CategorizeDrives ==
    \E target_drive \in DevPaths(sys) \cup {<<"/", "d", "e", "v", "/", "s", "d", "a">>} :
        /\ op' = "categorize_drives"
        /\ arg' = target_drive
        /\ ret' = [exc |-> "none", value |-> categorize_drives(drives, target_drive)]
        /\ io' = {}
        /\ UNCHANGED <<dry_run, drives, efi_entries, sys, cvVars, cmVars>>

\* between two calls the firmware tool may come, go or report other entries
EfiToolChanges ==
    \E e \in EfiOutcomes :
        /\ e # sys.efi
        /\ sys' = [sys EXCEPT !.efi = e]
        /\ op' = "idle"
        /\ arg' = <<>>
        /\ ret' = NoReturn
        /\ io' = {}
        /\ UNCHANGED <<dry_run, drives, efi_entries, cvVars, cmVars>>

(***************************************************************************)
(* config_simple.py: ConfigValidator and validate_config_file               *)
(***************************************************************************)
\* a dict with string keys is a function whose domain is the set of its keys
DictGet(d, k, default) == IF k \in DOMAIN d THEN d[k] ELSE default

\* bool(d.get(k)) for string values
Truthy(d, k) == k \in DOMAIN d /\ d[k] # <<>>

\* <<>> for None, <<e>> for a ValidationError
ValidationError(field, message) == [field |-> field, message |-> message]

\* s.split(sep) for a single character sep
RECURSIVE SplitFrom(_, _, _)
SplitFrom(s, sep, cur) ==
    IF s = <<>> THEN <<cur>>
    ELSE IF Head(s) = sep THEN <<cur>> \o SplitFrom(Tail(s), sep, <<>>)
    ELSE SplitFrom(Tail(s), sep, Append(cur, Head(s)))

Split(s, sep) == SplitFrom(s, sep, <<>>)

\* ipaddress.IPv4Address._parse_octet does not raise ValueError: one to three
\* decimal digits, no leading zero, at most 255
OctetOk(o) ==
    /\ o # <<>>
    /\ AllIn(o, 1, Len(o), Digit)
    /\ Len(o) <= 3
    /\ ~(o # <<"0">> /\ o[1] = "0")
    /\ DigitsValue(o, 0) <= 255

\* ipaddress.IPv4Address(ip) does not raise AddressValueError
IPv4AddressOk(ip) ==
    /\ "/" \notin Range(ip)
    /\ ip # <<>>
    /\ LET octets == Split(ip, ".") IN
          Len(octets) = 4 /\ \A i \in 1..4 : OctetOk(octets[i])

validate_drive_path(drive) ==
    IF ~MatchesNvmePath(drive)
    THEN <<ValidationError(<<"t", "a", "r", "g", "e", "t", "_", "d", "r", "i", "v", "e">>, <<"I", "n", "v", "a", "l", "i", "d", " ", "N", "V", "M", "e", " ", "d", "r", "i", "v", "e", " ", "p", "a", "t", "h", " ", "f", "o", "r", "m", "a", "t">>)>>
    ELSE <<>>

validate_ip_address(ip) ==
    IF IPv4AddressOk(ip) THEN <<>>
    ELSE <<ValidationError(<<"i", "p", "_", "a", "d", "d", "r", "e", "s", "s">>, <<"I", "n", "v", "a", "l", "i", "d", " ", "I", "P", " ", "a", "d", "d", "r", "e", "s", "s", " ", "f", "o", "r", "m", "a", "t">>)>>

\* re.match(r'^[a-z][a-z0-9_-]*$', username)
MatchesUsername(s) ==
    /\ s # <<>>
    /\ s[1] \in Lower
    /\ \E j \in 1..Len(s) :
          AllIn(s, 2, j, Lower \cup Digit \cup {"_", "-"}) /\ AtEnd(s, j + 1)

MaxUsernameLen == 32

validate_username(username) ==
    IF ~MatchesUsername(username)
    THEN <<ValidationError(<<"u", "s", "e", "r", "n", "a", "m", "e">>,
             <<"U", "s", "e", "r", "n", "a", "m", "e", " ", "m", "u", "s", "t", " ", "s", "t", "a", "r", "t", " ", "w", "i", "t", "h", " ", "l", "e", "t", "t", "e", "r", ",", " ", "c", "o", "n", "t", "a", "i", "n", " ", "o", "n", "l", "y", " ", "l", "o", "w", "e", "r", "c", "a", "s", "e", " ", "l", "e", "t", "t", "e", "r", "s", ",", " ", "n", "u", "m", "b", "e", "r", "s", ",", " ", "u", "n", "d", "e", "r", "s", "c", "o", "r", "e", ",", " ", "d", "a", "s", "h">>)>>
    ELSE IF Len(username) > MaxUsernameLen
    THEN <<ValidationError(<<"u", "s", "e", "r", "n", "a", "m", "e">>, <<"U", "s", "e", "r", "n", "a", "m", "e", " ", "t", "o", "o", " ", "l", "o", "n", "g", " ", "(", "m", "a", "x", " ", "3", "2", " ", "c", "h", "a", "r", "a", "c", "t", "e", "r", "s", ")">>)>>
    ELSE <<>>

\* re.match(r'[a-z]{2}_[A-Z]{2}\.UTF-8$', locale)
MatchesLocale(s) ==
    /\ Len(s) >= 11
    /\ AllIn(s, 1, 2, Lower)
    /\ s[3] = "_"
    /\ AllIn(s, 4, 5, Upper)
    /\ SubSeq(s, 6, 11) = <<".", "U", "T", "F", "-", "8">>
    /\ AtEnd(s, 12)

validate_locale(locale) ==
    IF ~MatchesLocale(locale)
    THEN <<ValidationError(<<"l", "o", "c", "a", "l", "e">>, <<"L", "o", "c", "a", "l", "e", " ", "m", "u", "s", "t", " ", "b", "e", " ", "i", "n", " ", "f", "o", "r", "m", "a", "t", ":", " ", "e", "n", "_", "U", "S", ".", "U", "T", "F", "-", "8">>)>>
    ELSE <<>>

NetworkTypes == {<<"d", "h", "c", "p">>, <<"s", "t", "a", "t", "i", "c">>, <<"m", "a", "n", "u", "a", "l">>}

\* the loop over required_fields of validate_network_config
RECURSIVE StaticRequired(_, _)
StaticRequired(cfg, fields) ==
    IF fields = <<>> THEN <<>>
    ELSE (IF ~Truthy(cfg, Head(fields))
          THEN <<ValidationError(Head(fields),
                    Head(fields) \o <<" ", "r", "e", "q", "u", "i", "r", "e", "d", " ", "f", "o", "r", " ", "s", "t", "a", "t", "i", "c", " ", "c", "o", "n", "f", "i", "g", "u", "r", "a", "t", "i", "o", "n">>)>>
          ELSE <<>>)
         \o StaticRequired(cfg, Tail(fields))

validate_network_config(cfg) ==
    LET network_type == DictGet(cfg, <<"n", "e", "t", "w", "o", "r", "k", "_", "c", "o", "n", "f", "i", "g">>, <<>>) IN
    (IF network_type \notin NetworkTypes
     THEN <<ValidationError(<<"n", "e", "t", "w", "o", "r", "k", "_", "c", "o", "n", "f", "i", "g">>, <<"M", "u", "s", "t", " ", "b", "e", " ", "d", "h", "c", "p", ",", " ", "s", "t", "a", "t", "i", "c", ",", " ", "o", "r", " ", "m", "a", "n", "u", "a", "l">>)>>
     ELSE <<>>)
    \o
    (IF network_type = <<"s", "t", "a", "t", "i", "c">>
     THEN StaticRequired(cfg, <<<<"s", "t", "a", "t", "i", "c", "_", "i", "p">>, <<"s", "t", "a", "t", "i", "c", "_", "g", "a", "t", "e", "w", "a", "y">>, <<"s", "t", "a", "t", "i", "c", "_", "i", "f", "a", "c", "e">>>>)
          \o (IF Truthy(cfg, <<"s", "t", "a", "t", "i", "c", "_", "i", "p">>)
              THEN validate_ip_address(cfg[<<"s", "t", "a", "t", "i", "c", "_", "i", "p">>]) ELSE <<>>)
          \o (IF Truthy(cfg, <<"s", "t", "a", "t", "i", "c", "_", "g", "a", "t", "e", "w", "a", "y">>)
              THEN [i \in DOMAIN validate_ip_address(cfg[<<"s", "t", "a", "t", "i", "c", "_", "g", "a", "t", "e", "w", "a", "y">>]) |->
                      [validate_ip_address(cfg[<<"s", "t", "a", "t", "i", "c", "_", "g", "a", "t", "e", "w", "a", "y">>])[i]
                          EXCEPT !.field = <<"s", "t", "a", "t", "i", "c", "_", "g", "a", "t", "e", "w", "a", "y">>]]
              ELSE <<>>)
     ELSE <<>>)

\* the loop over required of validate_config_file
RECURSIVE RequiredErrors(_, _)
RequiredErrors(cfg, fields) ==
    IF fields = <<>> THEN <<>>
    ELSE (IF ~Truthy(cfg, Head(fields))
          THEN <<ValidationError(Head(fields), Head(fields) \o <<" ", "i", "s", " ", "r", "e", "q", "u", "i", "r", "e", "d">>)>>
          ELSE <<>>)
         \o RequiredErrors(cfg, Tail(fields))

RequiredFields == <<<<"t", "a", "r", "g", "e", "t", "_", "d", "r", "i", "v", "e">>, <<"u", "s", "e", "r", "n", "a", "m", "e">>, <<"h", "o", "s", "t", "n", "a", "m", "e">>>>

\* validate_config_file giving up after the required-field check
validate_config_file_StopsAtMissing(cfg) ==
    IF RequiredErrors(cfg, RequiredFields) # <<>>
    THEN RequiredErrors(cfg, RequiredFields)
    ELSE (IF Truthy(cfg, <<"t", "a", "r", "g", "e", "t", "_", "d", "r", "i", "v", "e">>)
          THEN validate_drive_path(cfg[<<"t", "a", "r", "g", "e", "t", "_", "d", "r", "i", "v", "e">>]) ELSE <<>>)
         \o (IF Truthy(cfg, <<"u", "s", "e", "r", "n", "a", "m", "e">>)
             THEN validate_username(cfg[<<"u", "s", "e", "r", "n", "a", "m", "e">>]) ELSE <<>>)
         \o (IF Truthy(cfg, <<"l", "o", "c", "a", "l", "e">>)
             THEN validate_locale(cfg[<<"l", "o", "c", "a", "l", "e">>]) ELSE <<>>)
         \o validate_network_config(cfg)

validate_config_file(cfg) ==
    RequiredErrors(cfg, RequiredFields)
    \o (IF Truthy(cfg, <<"t", "a", "r", "g", "e", "t", "_", "d", "r", "i", "v", "e">>)
        THEN validate_drive_path(cfg[<<"t", "a", "r", "g", "e", "t", "_", "d", "r", "i", "v", "e">>]) ELSE <<>>)
    \o (IF Truthy(cfg, <<"u", "s", "e", "r", "n", "a", "m", "e">>)
        THEN validate_username(cfg[<<"u", "s", "e", "r", "n", "a", "m", "e">>]) ELSE <<>>)
    \o (IF Truthy(cfg, <<"l", "o", "c", "a", "l", "e">>)
        THEN validate_locale(cfg[<<"l", "o", "c", "a", "l", "e">>]) ELSE <<>>)
    \o validate_network_config(cfg)

(***************************************************************************)
(* The mappings validate_config_file is called with                         *)
(***************************************************************************)
Repeat(c, n) == [i \in 1..n |-> c]

\* a key that is not in the mapping
Absent == <<"<absent>">>

MaxHostnameLen == 63

GoodDrive == <<"/", "d", "e", "v", "/", "n", "v", "m", "e", "0", "n", "1">>
BadDrive == <<"/", "d", "e", "v", "/", "s", "d", "a", "1">>
GoodUser == <<"t", "e", "s", "t", "u", "s", "e", "r">>
BadUser == <<"1", "2", "3", "b", "a", "d">>
LongUser == Repeat("a", MaxUsernameLen + 1)
GoodHost == <<"k", "d", "e", "-", "t", "e", "s", "t">>
BadCharHost == <<"b", "a", "d", "_", "h", "o", "s", "t", "!">>
LongHost == Repeat("h", MaxHostnameLen + 1)
GoodLocale == <<"e", "n", "_", "U", "S", ".", "U", "T", "F", "-", "8">>
BadLocale == <<"i", "n", "v", "a", "l", "i", "d", "_", "l", "o", "c", "a", "l", "e">>
GoodIp == <<"1", "9", "2", ".", "1", "6", "8", ".", "1", ".", "1", "0", "0">>
BadIp == <<"9", "9", "9", ".", "9", "9", "9", ".", "9", "9", "9", ".", "9", "9", "9">>
GoodGateway == <<"1", "9", "2", ".", "1", "6", "8", ".", "1", ".", "1">>
BadGateway == <<"1", "9", "2", ".", "1", "6", "8", ".", "1">>
GoodIface == <<"e", "n", "p", "0", "s", "3">>

InputValues ==
    [target_drive : {Absent, <<>>, GoodDrive, BadDrive},
     username : {Absent, <<>>, GoodUser, BadUser, LongUser},
     hostname : {Absent, <<>>, GoodHost, BadCharHost, LongHost},
     locale : {Absent, GoodLocale, BadLocale},
     network_config : {Absent, <<"d", "h", "c", "p">>, <<"s", "t", "a", "t", "i", "c">>, <<"b", "o", "g", "u", "s">>},
     static_ip : {Absent, <<>>, GoodIp, BadIp},
     static_gateway : {Absent, <<>>, GoodGateway, BadGateway},
     static_iface : {Absent, <<>>, GoodIface}]

\* the dict with the keys of r that are not Absent
Keyed ==
    [k \in {<<"t", "a", "r", "g", "e", "t", "_", "d", "r", "i", "v", "e">>, <<"u", "s", "e", "r", "n", "a", "m", "e">>, <<"h", "o", "s", "t", "n", "a", "m", "e">>, <<"l", "o", "c", "a", "l", "e">>, <<"n", "e", "t", "w", "o", "r", "k", "_", "c", "o", "n", "f", "i", "g">>,
            <<"s", "t", "a", "t", "i", "c", "_", "i", "p">>, <<"s", "t", "a", "t", "i", "c", "_", "g", "a", "t", "e", "w", "a", "y">>, <<"s", "t", "a", "t", "i", "c", "_", "i", "f", "a", "c", "e">>} |->
        IF k = <<"t", "a", "r", "g", "e", "t", "_", "d", "r", "i", "v", "e">> THEN "target_drive"
        ELSE IF k = <<"u", "s", "e", "r", "n", "a", "m", "e">> THEN "username"
        ELSE IF k = <<"h", "o", "s", "t", "n", "a", "m", "e">> THEN "hostname"
        ELSE IF k = <<"l", "o", "c", "a", "l", "e">> THEN "locale"
        ELSE IF k = <<"n", "e", "t", "w", "o", "r", "k", "_", "c", "o", "n", "f", "i", "g">> THEN "network_config"
        ELSE IF k = <<"s", "t", "a", "t", "i", "c", "_", "i", "p">> THEN "static_ip"
        ELSE IF k = <<"s", "t", "a", "t", "i", "c", "_", "g", "a", "t", "e", "w", "a", "y">> THEN "static_gateway"
        ELSE "static_iface"]

DictOf(r) == [k \in {x \in DOMAIN Keyed : r[Keyed[x]] # Absent} |-> r[Keyed[k]]]

CvIdle ==
    /\ config_data = <<>>
    /\ errors = <<>>
    /\ validated = FALSE

CvInit ==
    /\ config_data \in {DictOf(r) : r \in InputValues}
    /\ errors = <<>>
    /\ validated = FALSE

ValidateConfigFile ==
    /\ ~validated
    /\ errors' = validate_config_file(config_data)
    /\ validated' = TRUE
    /\ UNCHANGED <<config_data, hwVars, cmVars>>

(***************************************************************************)
(* config_poc.py: NetworkConfig, SystemConfig, ConfigManager                *)
(***************************************************************************)
\* Python's None among string values, and the missing configuration file
None == <<"<None>">>
NoFile == <<"<no file>">>

\* str(v) inside an f-string
Str(v) == IF v = None THEN <<"N", "o", "n", "e">> ELSE v

\* bool(v) for an Optional[str]
IsTruthy(v) == v # None /\ v # <<>>

\* index of the first sep in s, 0 without one
FirstIndex(s, sep) ==
    IF sep \in Range(s) THEN CHOOSE i \in DOMAIN s : s[i] = sep /\ \A j \in 1..(i - 1) : s[j] # sep
    ELSE 0

\* the loop of _parse_shell_config over content.splitlines(): the raw mapping
RECURSIVE ParseLines(_, _)
ParseLines(lines, data) ==
    IF lines = <<>> THEN data
    ELSE LET line == Strip(Head(lines))
             eq == FirstIndex(line, "=")
         IN IF eq # 0 /\ ~StartsWith(line, <<"#">>)
            THEN LET key == SubSeq(line, 1, eq - 1)
                     value == StripChars(SubSeq(line, eq + 1, Len(line)), {"\"", "'"})
                 IN ParseLines(Tail(lines),
                               [k \in DOMAIN data \cup {key} |->
                                   IF k = key THEN value ELSE data[k]])
            ELSE ParseLines(Tail(lines), data)

RawConfig(content) == ParseLines(SplitLines(content), <<>>)

_parse_shell_config(content) ==
    LET data == RawConfig(content) IN
    [target_drive |-> DictGet(data, <<"t", "a", "r", "g", "e", "t", "_", "d", "r", "i", "v", "e">>, <<>>),
     locale |-> DictGet(data, <<"l", "o", "c", "a", "l", "e">>, <<"e", "n", "_", "U", "S", ".", "U", "T", "F", "-", "8">>),
     timezone |-> DictGet(data, <<"t", "i", "m", "e", "z", "o", "n", "e">>, <<"A", "m", "e", "r", "i", "c", "a", "/", "N", "e", "w", "_", "Y", "o", "r", "k">>),
     username |-> DictGet(data, <<"u", "s", "e", "r", "n", "a", "m", "e">>, <<>>),
     hostname |-> DictGet(data, <<"h", "o", "s", "t", "n", "a", "m", "e">>, <<>>),
     swap_size |-> DictGet(data, <<"s", "w", "a", "p", "_", "s", "i", "z", "e">>, <<"a", "u", "t", "o">>),
     filesystem |-> DictGet(data, <<"f", "i", "l", "e", "s", "y", "s", "t", "e", "m">>, <<"e", "x", "t", "4">>),
     network |->
        [network_type |-> DictGet(data, <<"n", "e", "t", "w", "o", "r", "k", "_", "c", "o", "n", "f", "i", "g">>, <<"d", "h", "c", "p">>),
         interface |-> DictGet(data, <<"s", "t", "a", "t", "i", "c", "_", "i", "f", "a", "c", "e">>, None),
         ip_address |-> DictGet(data, <<"s", "t", "a", "t", "i", "c", "_", "i", "p">>, None),
         netmask |-> DictGet(data, <<"s", "t", "a", "t", "i", "c", "_", "n", "e", "t", "m", "a", "s", "k">>, None),
         gateway |-> DictGet(data, <<"s", "t", "a", "t", "i", "c", "_", "g", "a", "t", "e", "w", "a", "y">>, None),
         dns_servers |-> DictGet(data, <<"s", "t", "a", "t", "i", "c", "_", "d", "n", "s">>, None),
         domain_search |-> DictGet(data, <<"s", "t", "a", "t", "i", "c", "_", "d", "o", "m", "a", "i", "n", "_", "s", "e", "a", "r", "c", "h">>, None),
         dns_suffix |-> DictGet(data, <<"s", "t", "a", "t", "i", "c", "_", "d", "n", "s", "_", "s", "u", "f", "f", "i", "x">>, None)]]

\* re.match(r'[A-Z][a-z_]+/[A-Z][a-z_]+$', v)
MatchesTimezone(s) ==
    /\ s # <<>>
    /\ s[1] \in Upper
    /\ \E i \in 2..Len(s) :
          /\ AllIn(s, 2, i, Lower \cup {"_"})
          /\ i + 2 <= Len(s)
          /\ s[i + 1] = "/"
          /\ s[i + 2] \in Upper
          /\ \E j \in (i + 3)..Len(s) :
                AllIn(s, i + 3, j, Lower \cup {"_"}) /\ AtEnd(s, j + 1)

\* re.match(r'^[a-zA-Z0-9-]+$', v)
MatchesHostname(s) ==
    \E j \in 1..Len(s) :
        AllIn(s, 1, j, Lower \cup Upper \cup Digit \cup {"-"}) /\ AtEnd(s, j + 1)

\* the error a validator contributes when it raises ValueError
ErrorIf(raises, field) == IF raises THEN {field} ELSE {}

\* the validators of NetworkConfig: the fields in error.  values.get('network_type')
\* is None when network_type itself was rejected.
NetworkConfigErrors(n) ==
    LET static == n.network_type \in NetworkTypes /\ n.network_type = <<"s", "t", "a", "t", "i", "c">> IN
    ErrorIf(n.network_type \notin NetworkTypes, "network_type")
    \cup ErrorIf(static /\ ~IsTruthy(n.interface), "interface")
    \cup ErrorIf((static /\ ~IsTruthy(n.ip_address))
                    \/ (IsTruthy(n.ip_address) /\ ~IPv4AddressOk(n.ip_address)), "ip_address")
    \cup ErrorIf((static /\ ~IsTruthy(n.gateway))
                    \/ (IsTruthy(n.gateway) /\ ~IPv4AddressOk(n.gateway)), "gateway")

validate_drive(v, exists) == ErrorIf(~MatchesNvmePath(v) \/ ~exists, "target_drive")

validate_timezone(v) == ErrorIf(~MatchesTimezone(v), "timezone")

validate_hostname(v) ==
    ErrorIf(~MatchesHostname(v) \/ Len(v) > MaxHostnameLen, "hostname")

\* the validators of SystemConfig: the fields in error
SystemConfigErrors(c, exists) ==
    validate_drive(c.target_drive, exists)
    \cup ErrorIf(~MatchesLocale(c.locale), "locale")
    \cup validate_timezone(c.timezone)
    \cup ErrorIf(~MatchesUsername(c.username) \/ Len(c.username) > MaxUsernameLen, "username")
    \cup validate_hostname(c.hostname)
    \cup ErrorIf(NetworkConfigErrors(c.network) # {}, "network")

\* an Optional[SystemConfig]: <<>> for None, <<c>> for the configuration c
NoConfig == <<>>

\* load_config: [value |-> what it returns, config |-> the new self.config]
load_config(content, exists, self_config) ==
    IF content = NoFile THEN [value |-> NoConfig, config |-> self_config]
    ELSE LET structured_config == _parse_shell_config(content) IN
         IF SystemConfigErrors(structured_config, exists) = {}
         THEN [value |-> <<structured_config>>, config |-> <<structured_config>>]
         ELSE [value |-> NoConfig, config |-> self_config]

\* one line key="value" of the file
KeyValueLine(key, value) == key \o <<"=", "\"">> \o value \o <<"\"", "\n">>

\* save_config: the text written to config_file
save_config(c) ==
    <<"#", " ", "K", "D", "E", " ", "N", "e", "o", "n", " ", "I", "n", "s", "t", "a", "l", "l", "a", "t", "i", "o", "n", " ", "C", "o", "n", "f", "i", "g", "u", "r", "a", "t", "i", "o", "n", "\n">>
    \o KeyValueLine(<<"t", "a", "r", "g", "e", "t", "_", "d", "r", "i", "v", "e">>, Str(c.target_drive))
    \o KeyValueLine(<<"l", "o", "c", "a", "l", "e">>, Str(c.locale))
    \o KeyValueLine(<<"t", "i", "m", "e", "z", "o", "n", "e">>, Str(c.timezone))
    \o KeyValueLine(<<"u", "s", "e", "r", "n", "a", "m", "e">>, Str(c.username))
    \o KeyValueLine(<<"h", "o", "s", "t", "n", "a", "m", "e">>, Str(c.hostname))
    \o KeyValueLine(<<"s", "w", "a", "p", "_", "s", "i", "z", "e">>, Str(c.swap_size))
    \o KeyValueLine(<<"f", "i", "l", "e", "s", "y", "s", "t", "e", "m">>, Str(c.filesystem))
    \o <<"\n", "#", " ", "N", "e", "t", "w", "o", "r", "k", " ", "C", "o", "n", "f", "i", "g", "u", "r", "a", "t", "i", "o", "n", "\n">>
    \o KeyValueLine(<<"n", "e", "t", "w", "o", "r", "k", "_", "c", "o", "n", "f", "i", "g">>, Str(c.network.network_type))
    \o (IF c.network.network_type = <<"s", "t", "a", "t", "i", "c">>
        THEN KeyValueLine(<<"s", "t", "a", "t", "i", "c", "_", "i", "f", "a", "c", "e">>, Str(c.network.interface))
             \o KeyValueLine(<<"s", "t", "a", "t", "i", "c", "_", "i", "p">>, Str(c.network.ip_address))
             \o KeyValueLine(<<"s", "t", "a", "t", "i", "c", "_", "n", "e", "t", "m", "a", "s", "k">>, Str(c.network.netmask))
             \o KeyValueLine(<<"s", "t", "a", "t", "i", "c", "_", "g", "a", "t", "e", "w", "a", "y">>, Str(c.network.gateway))
             \o KeyValueLine(<<"s", "t", "a", "t", "i", "c", "_", "d", "n", "s">>, Str(c.network.dns_servers))
        ELSE <<>>)
    \o (IF IsTruthy(c.network.domain_search)
        THEN KeyValueLine(<<"s", "t", "a", "t", "i", "c", "_", "d", "o", "m", "a", "i", "n", "_", "s", "e", "a", "r", "c", "h">>, Str(c.network.domain_search)) ELSE <<>>)
    \o (IF IsTruthy(c.network.dns_suffix)
        THEN KeyValueLine(<<"s", "t", "a", "t", "i", "c", "_", "d", "n", "s", "_", "s", "u", "f", "f", "i", "x">>, Str(c.network.dns_suffix)) ELSE <<>>)

(***************************************************************************)
(* The configuration files load_config is given                             *)
(***************************************************************************)
FileChoices ==
    [locale : {Absent, GoodLocale},
     timezone : {Absent, <<"E", "u", "r", "o", "p", "e", "/", "B", "e", "r", "l", "i", "n">>, <<"A", "m", "e", "r", "i", "c", "a", "/", "N", "e", "w", "_", "Y", "o", "r", "k">>},
     network_config : {Absent, <<"d", "h", "c", "p">>, <<"s", "t", "a", "t", "i", "c">>},
     static_iface : {Absent, GoodIface},
     static_ip : {Absent, GoodIp, BadIp},
     static_netmask : {Absent, <<"2", "5", "5", ".", "2", "5", "5", ".", "2", "5", "5", ".", "0">>},
     static_gateway : {Absent, GoodGateway},
     static_dns : {Absent, <<"8", ".", "8", ".", "8", ".", "8">>},
     static_domain_search : {Absent, <<>>, <<"h", "o", "m", "e", ".", "l", "o", "c", "a", "l">>},
     static_dns_suffix : {Absent, <<"c", "o", "r", "p">>}]

OptLine(key, value) == IF value = Absent THEN <<>> ELSE KeyValueLine(key, value)

FileText(r) ==
    <<"#", " ", "i", "n", "s", "t", "a", "l", "l", ".", "c", "o", "n", "f", "\n">>
    \o KeyValueLine(<<"t", "a", "r", "g", "e", "t", "_", "d", "r", "i", "v", "e">>, GoodDrive)
    \o OptLine(<<"l", "o", "c", "a", "l", "e">>, r.locale)
    \o OptLine(<<"t", "i", "m", "e", "z", "o", "n", "e">>, r.timezone)
    \o KeyValueLine(<<"u", "s", "e", "r", "n", "a", "m", "e">>, GoodUser)
    \o KeyValueLine(<<"h", "o", "s", "t", "n", "a", "m", "e">>, GoodHost)
    \o KeyValueLine(<<"s", "w", "a", "p", "_", "s", "i", "z", "e">>, <<"8", "G">>)
    \o KeyValueLine(<<"f", "i", "l", "e", "s", "y", "s", "t", "e", "m">>, <<"e", "x", "t", "4">>)
    \o OptLine(<<"n", "e", "t", "w", "o", "r", "k", "_", "c", "o", "n", "f", "i", "g">>, r.network_config)
    \o OptLine(<<"s", "t", "a", "t", "i", "c", "_", "i", "f", "a", "c", "e">>, r.static_iface)
    \o OptLine(<<"s", "t", "a", "t", "i", "c", "_", "i", "p">>, r.static_ip)
    \o OptLine(<<"s", "t", "a", "t", "i", "c", "_", "n", "e", "t", "m", "a", "s", "k">>, r.static_netmask)
    \o OptLine(<<"s", "t", "a", "t", "i", "c", "_", "g", "a", "t", "e", "w", "a", "y">>, r.static_gateway)
    \o OptLine(<<"s", "t", "a", "t", "i", "c", "_", "d", "n", "s">>, r.static_dns)
    \o OptLine(<<"s", "t", "a", "t", "i", "c", "_", "d", "o", "m", "a", "i", "n", "_", "s", "e", "a", "r", "c", "h">>, r.static_domain_search)
    \o OptLine(<<"s", "t", "a", "t", "i", "c", "_", "d", "n", "s", "_", "s", "u", "f", "f", "i", "x">>, r.static_dns_suffix)

CmIdle ==
    /\ config_file = NoFile
    /\ drive_exists = FALSE
    /\ config = NoConfig
    /\ cm_op = "__init__"
    /\ cm_ret = NoConfig
    /\ loaded_from = NoFile

CmInit ==
    /\ config_file \in {NoFile} \cup {FileText(r) : r \in FileChoices}
    /\ drive_exists \in BOOLEAN
    /\ config = NoConfig
    /\ cm_op = "__init__"
    /\ cm_ret = NoConfig
    /\ loaded_from = NoFile

LoadConfig ==
    LET r == load_config(config_file, drive_exists, config) IN
    /\ cm_op' = "load_config"
    /\ cm_ret' = r.value
    /\ config' = r.config
    /\ loaded_from' = IF r.value # NoConfig THEN config_file ELSE loaded_from
    /\ UNCHANGED <<config_file, drive_exists, hwVars, cvVars>>

\* save_config(self.config), once a configuration is loaded
SaveConfig ==
    /\ config # NoConfig
    /\ cm_op' = "save_config"
    /\ cm_ret' = NoConfig
    /\ config_file' = save_config(config[1])
    /\ UNCHANGED <<config, drive_exists, loaded_from, hwVars, cvVars>>

(***************************************************************************)
(* Specifications                                                           *)
(***************************************************************************)
vars == <<hwVars, cvVars, cmVars>>

HwIdle ==
    /\ dry_run = FALSE
    /\ drives = <<>>
    /\ efi_entries = <<>>
    /\ sys = [devs |-> <<>>, blkid |-> "missing", efi |-> NoEfiTool]
    /\ op = "__init__"
    /\ arg = <<>>
    /\ ret = NoReturn
    /\ io = {}

\* enumeration and classification of the drives of one machine
HwInit == DetectorInit(HwSystems) /\ CvIdle /\ CmIdle

HwNext ==
    \/ EnumerateNvmeDrives
    \/ DetectWindows
    \/ CategorizeDrives

SpecHardware == HwInit /\ [][HwNext]_vars

\* the probes that start an external tool, on a machine whose tools change
ProbeInit == DetectorInit(ProbeSystems) /\ CvIdle /\ CmIdle

ProbeNext ==
    \/ DetectWindows
    \/ GetEfiEntries
    \/ EfiToolChanges

SpecProbes == ProbeInit /\ [][ProbeNext]_vars

\* every call of one HardwareDetector, in any order, on such a machine
DetectorNext ==
    \/ EnumerateNvmeDrives
    \/ DetectWindows
    \/ GetEfiEntries
    \/ CategorizeDrives
    \/ EfiToolChanges

SpecDetector == ProbeInit /\ [][DetectorNext]_vars

\* one call of validate_config_file on each mapping
ValidatorInit == CvInit /\ HwIdle /\ CmIdle

ValidatorNext == ValidateConfigFile

SpecValidator == ValidatorInit /\ [][ValidatorNext]_vars

\* ConfigManager.load_config and save_config on one configuration file
ConfigInit == CmInit /\ HwIdle /\ CvIdle

ConfigNext ==
    \/ LoadConfig
    \/ SaveConfig

SpecConfig == ConfigInit /\ [][ConfigNext]_vars

(***************************************************************************)
(* Properties of validate_config_file                                       *)
(***************************************************************************)
ErrorsFor(f) == {i \in DOMAIN errors : errors[i].field = f}
ErrorsWith(f, m) == {i \in ErrorsFor(f) : errors[i].message = m}
MissingKey(f) == f \notin DOMAIN config_data \/ config_data[f] = <<>>
Given(f, values) == f \in DOMAIN config_data /\ config_data[f] \in values

\* C1: the result holds exactly one error (f, "f is required") for each of
\* target_drive, username, hostname that is absent or empty and none for one
\* that is present; and when a required field is missing the other rules are
\* still reported: the drive, username and locale formats and the network checks.
C1_RequiredFieldsReported ==
    validated =>
        /\ \A f \in {<<"t", "a", "r", "g", "e", "t", "_", "d", "r", "i", "v", "e">>, <<"u", "s", "e", "r", "n", "a", "m", "e">>, <<"h", "o", "s", "t", "n", "a", "m", "e">>} :
              Cardinality(ErrorsWith(f, f \o <<" ", "i", "s", " ", "r", "e", "q", "u", "i", "r", "e", "d">>))
                  = IF MissingKey(f) THEN 1 ELSE 0
        /\ (\E f \in {<<"t", "a", "r", "g", "e", "t", "_", "d", "r", "i", "v", "e">>, <<"u", "s", "e", "r", "n", "a", "m", "e">>, <<"h", "o", "s", "t", "n", "a", "m", "e">>} : MissingKey(f)) =>
              /\ Given(<<"t", "a", "r", "g", "e", "t", "_", "d", "r", "i", "v", "e">>, {BadDrive}) => ErrorsFor(<<"t", "a", "r", "g", "e", "t", "_", "d", "r", "i", "v", "e">>) # {}
              /\ Given(<<"u", "s", "e", "r", "n", "a", "m", "e">>, {BadUser, LongUser}) => ErrorsFor(<<"u", "s", "e", "r", "n", "a", "m", "e">>) # {}
              /\ Given(<<"l", "o", "c", "a", "l", "e">>, {BadLocale}) => ErrorsFor(<<"l", "o", "c", "a", "l", "e">>) # {}
              /\ ~Given(<<"n", "e", "t", "w", "o", "r", "k", "_", "c", "o", "n", "f", "i", "g">>, {<<"d", "h", "c", "p">>, <<"s", "t", "a", "t", "i", "c">>})
                    => ErrorsFor(<<"n", "e", "t", "w", "o", "r", "k", "_", "c", "o", "n", "f", "i", "g">>) # {}
              /\ (Given(<<"n", "e", "t", "w", "o", "r", "k", "_", "c", "o", "n", "f", "i", "g">>, {<<"s", "t", "a", "t", "i", "c">>}) /\ MissingKey(<<"s", "t", "a", "t", "i", "c", "_", "i", "f", "a", "c", "e">>))
                    => ErrorsFor(<<"s", "t", "a", "t", "i", "c", "_", "i", "f", "a", "c", "e">>) # {}

\* the mapping of the spec's example: a missing hostname next to a bad drive,
\* a bad username and an incomplete static network
C1_Witness ==
    /\ validated
    /\ MissingKey(<<"h", "o", "s", "t", "n", "a", "m", "e">>)
    /\ Given(<<"t", "a", "r", "g", "e", "t", "_", "d", "r", "i", "v", "e">>, {BadDrive})
    /\ Given(<<"u", "s", "e", "r", "n", "a", "m", "e">>, {BadUser})
    /\ Given(<<"n", "e", "t", "w", "o", "r", "k", "_", "c", "o", "n", "f", "i", "g">>, {<<"s", "t", "a", "t", "i", "c">>})
    /\ Given(<<"s", "t", "a", "t", "i", "c", "_", "i", "p">>, {BadIp})
    /\ MissingKey(<<"s", "t", "a", "t", "i", "c", "_", "i", "f", "a", "c", "e">>)
    /\ Len(errors) >= 5

\* C2: with network_config = static, each of static_iface, static_ip,
\* static_gateway that is absent or empty has exactly one error under its own
\* name, and a static_ip or static_gateway that is present but no dotted quad
\* has one error under its own name.
C2_StaticFieldErrors ==
    (validated /\ Given(<<"n", "e", "t", "w", "o", "r", "k", "_", "c", "o", "n", "f", "i", "g">>, {<<"s", "t", "a", "t", "i", "c">>})) =>
        /\ \A f \in {<<"s", "t", "a", "t", "i", "c", "_", "i", "f", "a", "c", "e">>, <<"s", "t", "a", "t", "i", "c", "_", "i", "p">>, <<"s", "t", "a", "t", "i", "c", "_", "g", "a", "t", "e", "w", "a", "y">>} :
              MissingKey(f) => Cardinality(ErrorsFor(f)) = 1
        /\ \A f \in {<<"s", "t", "a", "t", "i", "c", "_", "i", "p">>, <<"s", "t", "a", "t", "i", "c", "_", "g", "a", "t", "e", "w", "a", "y">>} :
              Given(f, {BadIp, BadGateway}) => Cardinality(ErrorsFor(f)) = 1

\* C3: a non-empty hostname with a character other than a letter, digit or
\* hyphen, or longer than 63 characters, has an error for field hostname.
C3_BadHostnameReported ==
    (validated /\ Given(<<"h", "o", "s", "t", "n", "a", "m", "e">>, {BadCharHost, LongHost})) =>
        ErrorsFor(<<"h", "o", "s", "t", "n", "a", "m", "e">>) # {}

(***************************************************************************)
(* Properties of HardwareDetector                                           *)
(***************************************************************************)
\* the devices of the machine the enumeration is meant to return: block
\* devices named nvme<N>n<M> with a /sys/block entry whose removable flag does
\* not read 1
IsCandidate(d) ==
    d.isBlock /\ d.nameOk /\ d.hasSys /\ d.removable # Text(<<"1", "\n">>)

Candidates == {i \in DOMAIN sys.devs : IsCandidate(sys.devs[i])}

DrivesAt(ds, i) == {k \in DOMAIN ds : ds[k].path = DevPath(i, sys.devs[i])}

\* machines on which nothing but the removable flag can go wrong
OnlyFlagsFail ==
    /\ sys.blkid # "denied"
    /\ \A i \in DOMAIN sys.devs : sys.devs[i].size # Denied

\* machines on which nothing but the size and model attributes can go wrong
OnlySizeModelFail ==
    /\ sys.blkid # "denied"
    /\ \A i \in DOMAIN sys.devs : sys.devs[i].removable.err = "none"

\* C4: with dry-run enabled, detect_windows returns false, get_efi_entries
\* returns the empty sequence, and neither starts blkid or efibootmgr,
\* whatever the machine holds and whatever was called before.
C4_DryRunProbes ==
    dry_run =>
        /\ op = "detect_windows" => ret = [exc |-> "none", value |-> FALSE] /\ io = {}
        /\ op = "get_efi_entries" => ret = [exc |-> "none", value |-> <<>>] /\ io = {}

\* a dry-run get_efi_entries on a machine whose efibootmgr lists a KDE entry,
\* after a dry-run detect_windows left no trace either
C4_Witness ==
    /\ dry_run
    /\ op = "get_efi_entries"
    /\ sys.blkid = "present"
    /\ sys.efi.err = "none"
    /\ EfiLoop(SplitLines(sys.efi.stdout)) # <<>>
    /\ \E i \in DOMAIN sys.devs : Contains(sys.devs[i].label.stdout, <<"E", "F", "I">>)

\* C5: with dry-run enabled enumerate_nvme_drives reads neither /dev nor /sys,
\* starts no tool and returns the empty list.
C5_DryRunEnumerateTouchesNothing ==
    (dry_run /\ op = "enumerate_nvme_drives") =>
        io = {} /\ ret = [exc |-> "none", value |-> <<>>]

\* C6: enumerate_nvme_drives does not fail on an unreadable removable flag and
\* every drive it returns has is_removable = FALSE (stated for the machines
\* on which only removable flags are unreadable).
C6_NoRemovableReturned ==
    (op = "enumerate_nvme_drives" /\ OnlyFlagsFail) =>
        /\ ret.exc = "none"
        /\ \A k \in DOMAIN ret.value : ret.value[k].is_removable = FALSE
        /\ \A i \in Candidates : DrivesAt(ret.value, i) # {}

\* C7: without dry-run detect_windows never raises: a missing tool, a
\* non-zero exit and a permission error all give false, and true is returned
\* only for a probe that succeeded with EFI or SYSTEM in its output.
C7_ProbeFailureNeverPropagates ==
    (op = "detect_windows" /\ ~dry_run) =>
        /\ ret.exc = "none"
        /\ sys.blkid # "present" => ret.value = FALSE
        /\ ret.value = TRUE =>
              \E i \in DOMAIN sys.devs :
                  /\ DevPath(i, sys.devs[i]) = arg
                  /\ sys.devs[i].label.rc = 0
                  /\ \/ Contains(sys.devs[i].label.stdout, <<"E", "F", "I">>)
                     \/ Contains(sys.devs[i].label.stdout, <<"S", "Y", "S", "T", "E", "M">>)

\* C8: an unreadable or unparsable size or model attribute never aborts
\* enumerate_nvme_drives: the device is returned with size_gb = 0, or with the
\* model "Unknown", and every other candidate device is returned too (stated
\* for the machines on which only size and model attributes are unreadable).
C8_SysfsFailureNeverAborts ==
    (op = "enumerate_nvme_drives" /\ OnlySizeModelFail) =>
        /\ ret.exc = "none"
        /\ \A i \in Candidates :
              \E k \in DrivesAt(ret.value, i) :
                  /\ (sys.devs[i].size.err # "none" \/ ~IsIntLiteral(sys.devs[i].size.text))
                        => ret.value[k].size_gb = 0
                  /\ sys.devs[i].model.err # "none" => ret.value[k].model = <<"U", "n", "k", "n", "o", "w", "n">>

SectorsPerGB == (1000 * 1000 * 1000) \div SectorBytes
CommonSectorCount == IntOf(<<"2", "0", "0", "0", "4", "0", "9", "7", "7", "6">>)

\* the drives returned for a device whose size attribute reads the sector count n
ReturnedWithSectors(n) ==
    {k \in DOMAIN ret.value :
        \E i \in DOMAIN sys.devs :
            /\ ret.value[k].path = DevPath(i, sys.devs[i])
            /\ sys.devs[i].size.err = "none"
            /\ IsIntLiteral(sys.devs[i].size.text)
            /\ IntOf(sys.devs[i].size.text) = n}

SectorCounts ==
    {IntOf(d.size.text) : d \in {x \in DeviceProfiles : x.size.err = "none" /\ IsIntLiteral(x.size.text)}}

\* C9 (as amended): size_gb is the number of whole 10^9-byte units in
\* sectors * 512 bytes, and a device of 2,000,409,776 sectors has size_gb = 1024.
C9_SizeIsDecimalGbTruncated ==
    (op = "enumerate_nvme_drives" /\ ret.exc = "none") =>
        \A n \in SectorCounts : \A k \in ReturnedWithSectors(n) :
            /\ ret.value[k].size_gb * SectorsPerGB <= n
            /\ n < (ret.value[k].size_gb + 1) * SectorsPerGB
            /\ n = CommonSectorCount => ret.value[k].size_gb = 1024

C9_Witness ==
    /\ op = "enumerate_nvme_drives"
    /\ ret.exc = "none"
    /\ ReturnedWithSectors(CommonSectorCount) # {}
    /\ \E n \in SectorCounts \ {CommonSectorCount} : ReturnedWithSectors(n) # {}

\* C9 (as stated): a device of 2,000,409,776 sectors has size_gb = 1000.
C9_Original ==
    (op = "enumerate_nvme_drives" /\ ret.exc = "none") =>
        \A k \in ReturnedWithSectors(CommonSectorCount) : ret.value[k].size_gb = 1000

\* the k-th smallest index of idx, and the elements of ds at idx in their order
KthOf(idx, k) == CHOOSE i \in idx : Cardinality({j \in idx : j < i}) = k - 1
Picked(ds, idx) == [k \in 1..Cardinality(idx) |-> ds[KthOf(idx, k)]]

\* what categorize_drives returned is the partition of self.drives on has_windows
C12_Partition ==
    op = "categorize_drives" =>
        /\ ret.exc = "none"
        /\ ret.value[1] = Picked(drives, {i \in DOMAIN drives : ~drives[i].has_windows})
        /\ ret.value[2] = Picked(drives, {i \in DOMAIN drives : drives[i].has_windows})
        /\ Range(ret.value[1]) \cap Range(ret.value[2]) = {}
        /\ Len(ret.value[1]) + Len(ret.value[2]) = Len(drives)
        /\ io = {}

\* C12: categorize_drives returns the drives of self.drives without
\* has_windows and those with it, each list in the original order, disjoint
\* and together the whole list, whatever the target drive argument; it queries
\* nothing and leaves self.drives and self.efi_entries as they were.
C12_CategorizePartitionsAndFrames ==
    /\ []C12_Partition
    /\ [][op' = "categorize_drives" =>
             (drives' = drives /\ efi_entries' = efi_entries)]_vars

\* a categorize_drives call for one of two enumerated drives, one with
\* Windows and one without, on a detector that holds EFI entries
C12_Witness ==
    /\ op = "categorize_drives"
    /\ Len(ret.value[1]) = 1
    /\ Len(ret.value[2]) = 1
    /\ arg = ret.value[1][1].path
    /\ efi_entries # <<>>

\* C13: after a get_efi_entries call that returned, self.efi_entries is the
\* list it returned; after one that returned the empty sequence (dry-run,
\* missing tool, non-zero exit) the cache holds no earlier entries.
C13_CacheIsLastResult ==
    (op = "get_efi_entries" /\ ret.exc = "none") => efi_entries = ret.value

(***************************************************************************)
(* Properties of ConfigManager                                              *)
(***************************************************************************)
StaticKeys ==
    {<<"s", "t", "a", "t", "i", "c", "_", "i", "f", "a", "c", "e">>, <<"s", "t", "a", "t", "i", "c", "_", "i", "p">>, <<"s", "t", "a", "t", "i", "c", "_", "n", "e", "t", "m", "a", "s", "k">>, <<"s", "t", "a", "t", "i", "c", "_", "g", "a", "t", "e", "w", "a", "y">>, <<"s", "t", "a", "t", "i", "c", "_", "d", "n", "s">>,
     <<"s", "t", "a", "t", "i", "c", "_", "d", "o", "m", "a", "i", "n", "_", "s", "e", "a", "r", "c", "h">>, <<"s", "t", "a", "t", "i", "c", "_", "d", "n", "s", "_", "s", "u", "f", "f", "i", "x">>}

GeneralKeys ==
    {<<"t", "a", "r", "g", "e", "t", "_", "d", "r", "i", "v", "e">>, <<"l", "o", "c", "a", "l", "e">>, <<"t", "i", "m", "e", "z", "o", "n", "e">>, <<"u", "s", "e", "r", "n", "a", "m", "e">>, <<"h", "o", "s", "t", "n", "a", "m", "e">>, <<"s", "w", "a", "p", "_", "s", "i", "z", "e">>,
     <<"f", "i", "l", "e", "s", "y", "s", "t", "e", "m">>, <<"n", "e", "t", "w", "o", "r", "k", "_", "c", "o", "n", "f", "i", "g">>}

\* a file that itself has static_* keys only for a static network, and
\* static_domain_search / static_dns_suffix only with a value
KeySetWellFormed(content) ==
    LET data == RawConfig(content) IN
    /\ DOMAIN data \cap StaticKeys # {} => DictGet(data, <<"n", "e", "t", "w", "o", "r", "k", "_", "c", "o", "n", "f", "i", "g">>, <<>>) = <<"s", "t", "a", "t", "i", "c">>
    /\ \A k \in {<<"s", "t", "a", "t", "i", "c", "_", "d", "o", "m", "a", "i", "n", "_", "s", "e", "a", "r", "c", "h">>, <<"s", "t", "a", "t", "i", "c", "_", "d", "n", "s", "_", "s", "u", "f", "f", "i", "x">>} :
          k \in DOMAIN data => data[k] # <<>>

\* C10: the file save_config writes for a loaded (validated) configuration
\* has static_* keys only for a static network, has static_domain_search and
\* static_dns_suffix only with a non-empty value, and parses to the key set of
\* the file the configuration was loaded from: no key is added for a field
\* that was absent (stated for the loaded files that carry every general key
\* and whose own key set is well formed).
C10_SavedKeySetRoundTrips ==
    (/\ cm_op = "save_config"
     /\ GeneralKeys \subseteq DOMAIN RawConfig(loaded_from)
     /\ KeySetWellFormed(loaded_from)) =>
        LET saved == RawConfig(config_file) IN
        /\ DOMAIN saved \cap StaticKeys # {} => config[1].network.network_type = <<"s", "t", "a", "t", "i", "c">>
        /\ \A k \in {<<"s", "t", "a", "t", "i", "c", "_", "d", "o", "m", "a", "i", "n", "_", "s", "e", "a", "r", "c", "h">>, <<"s", "t", "a", "t", "i", "c", "_", "d", "n", "s", "_", "s", "u", "f", "f", "i", "x">>} :
              k \in DOMAIN saved => saved[k] # <<>>
        /\ DOMAIN saved = DOMAIN RawConfig(loaded_from)

\* C11: the default timezone "America/New_York" that load_config substitutes
\* for a missing timezone key is accepted: a file without a timezone key whose
\* other fields are valid loads, with that default, and without a timezone error.
C11_DefaultTimezoneAccepted ==
    (/\ cm_op = "load_config"
     /\ config_file # NoFile
     /\ <<"t", "i", "m", "e", "z", "o", "n", "e">> \notin DOMAIN RawConfig(config_file)
     /\ SystemConfigErrors(_parse_shell_config(config_file), drive_exists)
           \subseteq {"timezone"}) =>
        /\ cm_ret # NoConfig
        /\ config = cm_ret
        /\ config[1].timezone = <<"A", "m", "e", "r", "i", "c", "a", "/", "N", "e", "w", "_", "Y", "o", "r", "k">>

====
